---- MODULE Spec2Model ----
(***************************************************************************)
(* Maintenance scripts of hololive-kakao-bot-go that reconcile members.json *)
(* (sync_official_names.py, update_members.py, fix_korean_names.py) and     *)
(* rewrite the hashtag labels of the profile files                         *)
(* (scripts/fix_japanese_labels.py, fix_japanese_hashtag_labels.py).       *)
(*                                                                         *)
(* Text is modelled as a sequence of characters where the code searches or *)
(* rewrites it (Japanese names, label values); a character outside ASCII   *)
(* is written uXXXX, its code point.  Text that the code only compares or  *)
(* copies whole (member names, Korean names, profile labels) is an atomic  *)
(* string in the same spelling.  A JSON object is a record whose DOMAIN    *)
(* holds the keys that are present.                                        *)
(***************************************************************************)
EXTENDS Integers, Sequences, FiniteSets, TLC

VARIABLES
  members,           \* internal/domain/data/members.json: the 'members' list
  official_talents,  \* official_talents.json
  schedule_names,    \* official_japanese_names.json: the member_name of each entry
  profile,           \* official_profiles_ko/<member>.json: the 'data' list
  before,            \* that list as the last label script read it
  lastOp,            \* the script that ran last
  status,            \* how that run ended: "done", or "aborted" by an exception
  summary,           \* the counters that run printed
  added,             \* the <<member index, alias>> pairs that run appended
  runs               \* script runs so far, the scraper's included

vars == <<members, official_talents, schedule_names, profile, before,
          lastOp, status, summary, added, runs>>
fileVars == <<profile, before>>
memberVars == <<members, official_talents, schedule_names, added>>

(***************************************************************************)
(* Bounds of the model.                                                    *)
(***************************************************************************)
MaxRuns == 3
MaxSchedule == 2
MaxPieces == 3

(***************************************************************************)
(* Python primitives.                                                      *)
(***************************************************************************)
\* x in y, for two str: x occurs in y as a contiguous run ('' occurs in every str)
PyIn(x, y) ==
  \E i \in 0..(Len(y) - Len(x)) : SubSeq(y, i + 1, i + Len(x)) = x

\* x in lst, for a list
InList(x, lst) == \E k \in 1..Len(lst) : lst[k] = x

\* d.get(key, default) on a JSON object
Get(d, key, default) == IF key \in DOMAIN d THEN d[key] ELSE default

\* d[key] = value
SetKey(d, key, value) == (key :> value) @@ d

RECURSIVE SumSeq(_)
SumSeq(s) == IF s = <<>> THEN 0 ELSE Head(s) + SumSeq(Tail(s))

RECURSIVE Dedup(_)
\* the keys of a dict filled from a list, in insertion order
Dedup(s) ==
  IF s = <<>> THEN <<>>
  ELSE LET rest == Dedup(SubSeq(s, 1, Len(s) - 1))
           x == s[Len(s)]
       IN IF InList(x, rest) THEN rest ELSE Append(rest, x)

Range(s) == {s[k] : k \in 1..Len(s)}

\* every order in which a set can be iterated
Orders(S) ==
  {o \in [1..Cardinality(S) -> S] : \A i, j \in 1..Cardinality(S) : i # j => o[i] # o[j]}

(***************************************************************************)
(* Lookup tables.                                                          *)
(***************************************************************************)
OFFICIAL_KOREAN_NAMES ==
      ("Tokino Sora" :> "uD1A0.uD0A4.uB178. uC18C.uB77C")
   @@ ("Roboco-san" :> "uB85C.uBCF4.uCF54.uC0C1")
   @@ ("Sakura Miko" :> "uC0AC.uCFE0.uB77C. uBBF8.uCF54")
   @@ ("Hoshimachi Suisei" :> "uD638.uC2DC.uB9C8.uCE58. uC2A4.uC774.uC138.uC774")
   @@ ("AZKi" :> "uC544.uC988.uD0A4")
   @@ ("Yozora Mel" :> "uC694.uC870.uB77C. uBA5C")
   @@ ("Akai Haato" :> "uC544.uCE74.uC774. uD558.uC544.uD1A0")
   @@ ("Aki Rosenthal" :> "uC544.uD0A4. uB85C.uC820.uD0C8")
   @@ ("Natsuiro Matsuri" :> "uB098.uCE20.uC774.uB85C. uB9C8.uCE20.uB9AC")
   @@ ("Shirakami Fubuki" :> "uC2DC.uB77C.uCE74.uBBF8. uD6C4.uBD80.uD0A4")
   @@ ("Minato Aqua" :> "uBBF8.uB098.uD1A0. uC544.uCFE0.uC544")
   @@ ("Murasaki Shion" :> "uBB34.uB77C.uC0AC.uD0A4. uC2DC.uC628")
   @@ ("Nakiri Ayame" :> "uB098.uD0A4.uB9AC. uC544.uC57C.uBA54")
   @@ ("Yuzuki Choco" :> "uC720.uC988.uD0A4. uCD08.uCF54")
   @@ ("Oozora Subaru" :> "uC624.uC624.uC870.uB77C. uC2A4.uBC14.uB8E8")
   @@ ("Ookami Mio" :> "uC624.uC624.uCE74.uBBF8. uBBF8.uC624")
   @@ ("Nekomata Okayu" :> "uB124.uCF54.uB9C8.uD0C0. uC624.uCE74.uC720")
   @@ ("Inugami Korone" :> "uC774.uB204.uAC00.uBBF8. uCF54.uB85C.uB124")
   @@ ("Usada Pekora" :> "uC6B0.uC0AC.uB2E4. uD398.uCF54.uB77C")
   @@ ("Uruha Rushia" :> "uC6B0.uB8E8.uD558. uB8E8.uC2DC.uC544")
   @@ ("Shiranui Flare" :> "uC2DC.uB77C.uB204.uC774. uD6C4.uB808.uC544")
   @@ ("Shirogane Noel" :> "uC2DC.uB85C.uAC00.uB124. uB178.uC5D8")
   @@ ("Houshou Marine" :> "uD638.uC1FC. uB9C8.uB9B0")
   @@ ("Amane Kanata" :> "uC544.uB9C8.uB124. uCE74.uB098.uD0C0")
   @@ ("Tsunomaki Watame" :> "uCE20.uB178.uB9C8.uD0A4. uC640.uD0C0.uBA54")
   @@ ("Tokoyami Towa" :> "uD1A0.uCF54.uC57C.uBBF8. uD1A0.uC640")
   @@ ("Himemori Luna" :> "uD788.uBA54.uBAA8.uB9AC. uB8E8.uB098")
   @@ ("Yukihana Lamy" :> "uC720.uD0A4.uD558.uB098. uB77C.uBBF8")
   @@ ("Momosuzu Nene" :> "uBAA8.uBAA8.uC2A4.uC988. uB124.uB124")
   @@ ("Shishiro Botan" :> "uC2DC.uC2DC.uB85C. uBCF4.uD0C4")
   @@ ("Omaru Polka" :> "uC624.uB9C8.uB8E8. uD3F4.uCE74")
   @@ ("La+ Darknesss" :> "uB77C.uD50C.uB77C.uC2A4. uB2E4.uD06C.uB2C8.uC2A4")
   @@ ("Takane Lui" :> "uD0C0.uCE74.uB124. uB8E8.uC774")
   @@ ("Hakui Koyori" :> "uD558.uCFE0.uC774. uCF54.uC694.uB9AC")
   @@ ("Kazama Iroha" :> "uCE74.uC790.uB9C8. uC774.uB85C.uD558")
   @@ ("Sakamata Chloe" :> "uC0AC.uCE74.uB9C8.uD0C0. uD074.uB85C.uC5D0")
   @@ ("Hiodoshi Ao" :> "uD788.uC624.uB3C4.uC2DC. uC544.uC624")
   @@ ("Otonose Kanade" :> "uC624.uD1A0.uB178.uC138. uCE74.uB098.uB370")
   @@ ("Ichijou Ririka" :> "uC774.uCE58.uC8E0. uB9AC.uB9AC.uCE74")
   @@ ("Juufuutei Raden" :> "uC8FC.uD6C4.uD14C.uC774. uB77C.uB374")
   @@ ("Todoroki Hajime" :> "uD1A0.uB3C4.uB85C.uD0A4. uD558.uC9C0.uBA54")
   @@ ("Isaki Riona" :> "uC774.uC0AC.uD0A4. uB9AC.uC624.uB098")
   @@ ("Koganei Niko" :> "uCF54.uAC00.uB124.uC774. uB2C8.uCF54")
   @@ ("Mizumiya Su" :> "uBBF8.uC988.uBBF8.uC57C. uC2A4.uC6B0")
   @@ ("Rindo Chihaya" :> "uB9B0.uB3C4. uCE58.uD558.uC57C")
   @@ ("Kikirara Vivi" :> "uD0A4.uD0A4.uB77C.uB77C. uBE44.uBE44")
   @@ ("Ayunda Risu" :> "uC544.uC724.uB2E4. uB9AC.uC2A4")
   @@ ("Moona Hoshinova" :> "uBB34.uB098. uD638.uC2DC.uB178.uBC14")
   @@ ("Airani Iofifteen" :> "uC544.uC774.uB77C.uB2C8. uC774.uC624.uD53C.uD504.uD2F4")
   @@ ("Kureiji Ollie" :> "uCFE0.uB808.uC774.uC9C0. uC62C.uB9AC")
   @@ ("Anya Melfissa" :> "uC544.uB0D0. uBA5C.uD53C.uC0AC")
   @@ ("Pavolia Reine" :> "uD30C.uBCFC.uB9AC.uC544. uB808.uC774.uB124")
   @@ ("Vestia Zeta" :> "uBCA0.uC2A4.uD2F0.uC544. uC81C.uD0C0")
   @@ ("Kaela Kovalskia" :> "uCE74.uC5D8.uB77C. uCF54.uBC1C.uC2A4.uD0A4.uC544")
   @@ ("Kobo Kanaeru" :> "uCF54.uBCF4. uCE74.uB098.uC5D0.uB8E8")
   @@ ("Mori Calliope" :> "uBAA8.uB9AC. uCE7C.uB9AC.uC624.uD398")
   @@ ("Takanashi Kiara" :> "uD0C0.uCE74.uB098.uC2DC. uD0A4.uC544.uB77C")
   @@ ("Ninomae Ina'nis" :> "uB2C8.uB178.uB9C8.uC5D0. uC774.uB098.uB2C8.uC2A4")
   @@ ("Gawr Gura" :> "uAC00.uC6B0.uB974. uAD6C.uB77C")
   @@ ("Watson Amelia" :> "uC653.uC2A8. uC544.uBA5C.uB9AC.uC544")
   @@ ("Tsukumo Sana" :> "uCE20.uCFE0.uBAA8. uC0AC.uB098")
   @@ ("Ceres Fauna" :> "uC138.uB808.uC2A4. uD30C.uC6B0.uB098")
   @@ ("Ouro Kronii" :> "uC624.uB85C. uD06C.uB85C.uB2C8")
   @@ ("Nanashi Mumei" :> "uB098.uB098.uC2DC. uBB34.uBA54.uC774")
   @@ ("Hakos Baelz" :> "uD558.uCF54.uC2A4. uBCA8.uC988")
   @@ ("Shiori Novella" :> "uC2DC.uC624.uB9AC. uB178.uBCA8.uB77C")
   @@ ("Koseki Bijou" :> "uCF54.uC138.uD0A4. uBE44.uC96C")
   @@ ("Nerissa Ravencroft" :> "uB124.uB9AC.uC0AC. uB808.uC774.uBE10.uD06C.uB85C.uD504.uD2B8")
   @@ ("FuwaMoco" :> "uD6C4.uC640.uBAA8.uCF54")
   @@ ("Elizabeth Rose Bloodflame" :> "uC5D8.uB9AC.uC790.uBCA0.uC2A4. uB85C.uC988. uBE14.uB7EC.uB4DC.uD50C.uB808.uC784")
   @@ ("Cecilia Immergreen" :> "uC138.uC2E4.uB9AC.uC544. uC774.uBA38.uADF8.uB9B0")
   @@ ("Raora Panthera" :> "uB77C.uC624.uB77C. uD310.uD14C.uB77C")
   @@ ("Gigi Murin" :> "uC9C0.uC9C0. uBB34.uB9B0")

romanize_mapping ==
      ("Usada Pekora" :> "uC6B0.uC0AC.uB2E4. uD398.uCF54.uB77C")
   @@ ("Sakura Miko" :> "uC0AC.uCFE0.uB77C. uBBF8.uCF54")
   @@ ("Shiranui Flare" :> "uC2DC.uB77C.uB204.uC774. uD6C4.uB808.uC544")
   @@ ("Tokino Sora" :> "uD1A0.uD0A4.uB178. uC18C.uB77C")
   @@ ("Roboco-san" :> "uB85C.uBCF4.uCF54.uC0C1")
   @@ ("Akai Haato" :> "uC544.uCE74.uC774. uD558.uC544.uD1A0")
   @@ ("Aki Rosenthal" :> "uC544.uD0A4. uB85C.uC820.uD0C8")
   @@ ("Shirakami Fubuki" :> "uC2DC.uB77C.uCE74.uBBF8. uD6C4.uBD80.uD0A4")
   @@ ("Natsuiro Matsuri" :> "uB098.uCE20.uC774.uB85C. uB9C8.uCE20.uB9AC")
   @@ ("Yozora Mel" :> "uC694.uC870.uB77C. uBA5C")
   @@ ("Murasaki Shion" :> "uBB34.uB77C.uC0AC.uD0A4. uC2DC.uC628")
   @@ ("Nakiri Ayame" :> "uB098.uD0A4.uB9AC. uC544.uC57C.uBA54")
   @@ ("Oozora Subaru" :> "uC624.uC624.uC870.uB77C. uC2A4.uBC14.uB8E8")
   @@ ("Minato Aqua" :> "uBBF8.uB098.uD1A0. uC544.uCFE0.uC544")
   @@ ("Hoshimachi Suisei" :> "uD638.uC2DC.uB9C8.uCE58. uC2A4.uC774.uC138.uC774")
   @@ ("Tsunomaki Watame" :> "uCE20.uB178.uB9C8.uD0A4. uC640.uD0C0.uBA54")
   @@ ("Tokoyami Towa" :> "uD1A0.uCF54.uC57C.uBBF8. uD1A0.uC640")
   @@ ("Himemori Luna" :> "uD788.uBA54.uBAA8.uB9AC. uB8E8.uB098")
   @@ ("Yukihana Lamy" :> "uC720.uD0A4.uD558.uB098. uB77C.uBBF8")
   @@ ("Momosuzu Nene" :> "uBAA8.uBAA8.uC2A4.uC988. uB124.uB124")
   @@ ("Shishiro Botan" :> "uC2DC.uC2DC.uB85C. uBCF4.uD0C4")
   @@ ("Omaru Polka" :> "uC624.uB9C8.uB8E8. uD3F4.uCE74")
   @@ ("La+ Darknesss" :> "uB77C.uD50C.uB77C.uC2A4. uB2E4.uD06C.uB2C8.uC2A4")
   @@ ("Takane Lui" :> "uD0C0.uCE74.uB124. uB8E8.uC774")
   @@ ("Hakui Koyori" :> "uD558.uCFE0.uC774. uCF54.uC694.uB9AC")
   @@ ("Kazama Iroha" :> "uCE74.uC790.uB9C8. uC774.uB85C.uD558")
   @@ ("Inugami Korone" :> "uC774.uB204.uAC00.uBBF8. uCF54.uB85C.uB124")
   @@ ("Nekomata Okayu" :> "uB124.uCF54.uB9C8.uD0C0. uC624.uCE74.uC720")
   @@ ("Ookami Mio" :> "uC624.uC624.uCE74.uBBF8. uBBF8.uC624")
   @@ ("Amane Kanata" :> "uC544.uB9C8.uB124. uCE74.uB098.uD0C0")
   @@ ("AZKi" :> "uC544.uC988.uD0A4")

\* the names update_members.py and sync_official_names.py discard
DENYLIST ==
  {<<"u30AB", "u30EB", "u30FC", "u30BB", "u30EB">>,
   <<"u30DB", "u30ED", "u30E9", "u30A4", "u30D6">>,
   <<"R", "e", "G", "L", "O", "S", "S">>,
   <<"F", "L", "O", "W", " ", "G", "L", "O", "W">>}

normalize_english_name(name) ==
  IF name = "Robocosan" THEN "Roboco-san" ELSE name

romanize_to_korean(name) ==
  IF name \in DOMAIN romanize_mapping THEN romanize_mapping[name] ELSE name

(***************************************************************************)
(* The member records and input files the model starts from.               *)
(***************************************************************************)
JaA == <<"a">>
JaB == <<"b">>
JaAB == <<"a", "b">>
ReGLOSS == <<"R", "e", "G", "L", "O", "S", "S">>
KoOld == "uC544.uC988.uD0A4"
KoAlias == "uC544.uC988"

\* optional keys: every way of adding some of the keys of r to the record base
WithOptional(base, r) ==
  {base @@ [k \in ks |-> r[k]] : ks \in SUBSET (DOMAIN r)}

\* AZKi: nameJa missing, empty or set; with or without a Japanese alias
JaMembers1 ==
  UNION {WithOptional([name |-> "AZKi", nameKo |-> KoOld], r) :
           r \in {[nameJa |-> ja, aliases |-> [ja |-> <<JaB>>]] : ja \in {<<>>, JaA}}}

\* a member the official talent list does not know: with or without a Japanese alias
JaMembers2 ==
  WithOptional([name |-> "Mystery Member", nameKo |-> KoOld, nameJa |-> JaAB],
               [aliases |-> [ja |-> <<JaA>>]])

KoMembers ==
  UNION {WithOptional([nameJa |-> JaA], r) :
           r \in {[name |-> n, nameKo |-> k, aliases |-> [ko |-> a]] :
                    n \in {"AZKi", "Yuzuki Choco", "Mystery Member"},
                    k \in {"", KoOld},
                    a \in {<<"">>, <<KoAlias>>}}}

\* a record without the 'name' key every script reads
NoName == [nameJa |-> JaA, nameKo |-> ""]

\* registries that differ in the Japanese names and aliases
JaRegistries == {<<m1, m2>> : m1 \in JaMembers1, m2 \in JaMembers2}

\* registries that differ in the member name, nameKo and the Korean aliases
KoRegistries ==
  {<<m>> : m \in KoMembers}
    \cup {<<NoName, m>> : m \in {k \in KoMembers : "name" \in DOMAIN k}}
    \cup {<<m, NoName>> : m \in {k \in KoMembers : "name" \in DOMAIN k}}

\* official_talents.json: the talent list, with or without an entry for AZKi
OfficialFiles ==
  LET roboco == [english |-> "Robocosan", japanese |-> JaB]
  IN {<<roboco>>} \cup {<<roboco, [english |-> "AZKi", japanese |-> ja]>> : ja \in {JaA, JaAB}}

ScheduleNamePool == {JaA, JaB, JaAB}

\* official_japanese_names.json: up to MaxSchedule names of members, in any order,
\* and a group name the scraper picks up with them
ScheduleFiles ==
  {Append(o, ReGLOSS) :
     o \in UNION {Orders(S) : S \in {T \in SUBSET ScheduleNamePool :
                                        Cardinality(T) <= MaxSchedule}}}

(***************************************************************************)
(* sync_official_names.py                                                  *)
(***************************************************************************)
RECURSIVE official_map(_)
\* English name -> Japanese official name; a later entry replaces an earlier one
official_map(talents) ==
  IF talents = <<>> THEN <<>>
  ELSE LET talent == talents[Len(talents)]
       IN (normalize_english_name(talent.english) :> talent.japanese)
            @@ official_map(SubSeq(talents, 1, Len(talents) - 1))

\* the set the schedule names are collected in
schedule_ja_names(names) == Range(names) \ DENYLIST

\* Matches with the aliases left out of the comparison
MatchesNameOnly(schedule_name, member_ja, ja_aliases) ==
  PyIn(schedule_name, member_ja) \/ PyIn(member_ja, schedule_name)

\* the condition under which a schedule name is taken to be the member's
Matches(schedule_name, member_ja, ja_aliases) ==
  \/ PyIn(schedule_name, member_ja)
  \/ PyIn(member_ja, schedule_name)
  \/ \E k \in 1..Len(ja_aliases) :
       PyIn(schedule_name, ja_aliases[k]) \/ PyIn(ja_aliases[k], schedule_name)

\* 1. nameJa from the official talent list
SyncNameJa(member, omap) ==
  IF member.name \in DOMAIN omap
       /\ ("nameJa" \notin DOMAIN member \/ member.nameJa # omap[member.name])
  THEN SetKey(member, "nameJa", omap[member.name])
  ELSE member

\* NameKoMissing without the test: nameKo is resolved for every member
NameKoAlways(member) == TRUE

\* 'nameKo' not in member or not member.get('nameKo')
NameKoMissing(member) == "nameKo" \notin DOMAIN member \/ member.nameKo = ""

\* member.get('aliases') and member['aliases'].get(lang)
HasAliases(member, lang) ==
  /\ "aliases" \in DOMAIN member
  /\ DOMAIN member.aliases # {}
  /\ lang \in DOMAIN member.aliases
  /\ member.aliases[lang] # <<>>

\* 2. nameKo, when missing, from the first Korean alias or the English name
SyncNameKo(member) ==
  IF NameKoMissing(member)
  THEN IF HasAliases(member, "ko")
       THEN SetKey(member, "nameKo", member.aliases.ko[1])
       ELSE SetKey(member, "nameKo", member.name)
  ELSE member

\* whether a matching schedule name is appended
SyncAccepts(schedule_name, member_ja, ja_aliases) ==
  ~InList(schedule_name, ja_aliases) /\ schedule_name # member_ja

RECURSIVE SyncAliasLoop(_, _, _)
\* the loop over schedule_ja_names, in the order the set is iterated
SyncAliasLoop(order, member_ja, ja_aliases) ==
  IF order = <<>> THEN ja_aliases
  ELSE LET schedule_name == Head(order)
       IN SyncAliasLoop(Tail(order), member_ja,
            IF Matches(schedule_name, member_ja, ja_aliases)
                 /\ SyncAccepts(schedule_name, member_ja, ja_aliases)
            THEN Append(ja_aliases, schedule_name)
            ELSE ja_aliases)

\* 3. the aliases object with its 'ja' list, created when absent
EnsureJa(member) ==
  LET aliases == Get(member, "aliases", <<>>)
  IN SetKey(member, "aliases",
            IF "ja" \in DOMAIN aliases THEN aliases ELSE SetKey(aliases, "ja", <<>>))

SyncAliases(member, order) ==
  LET m == EnsureJa(member)
      ja == SyncAliasLoop(order, Get(m, "nameJa", <<>>), m.aliases.ja)
  IN SetKey(m, "aliases", SetKey(m.aliases, "ja", ja))

\* one pass of the loop body over one member
SyncMember(member, omap, order) ==
  SyncAliases(SyncNameKo(SyncNameJa(member, omap)), order)

\* the ja aliases that new holds and old did not
NewAliases(old, new) ==
  LET was == IF "aliases" \in DOMAIN old /\ "ja" \in DOMAIN old.aliases
             THEN old.aliases.ja ELSE <<>>
      now == IF "aliases" \in DOMAIN new /\ "ja" \in DOMAIN new.aliases
             THEN new.aliases.ja ELSE <<>>
  IN Range(now) \ Range(was)

B2N(b) == IF b THEN 1 ELSE 0

SyncSummary(old, new) ==
  LET I == 1..Len(old)
      ja(i) == B2N(SyncNameJa(old[i], official_map(official_talents)) # old[i])
      ko(i) == B2N(NameKoMissing(old[i]))
      al(i) == Cardinality(NewAliases(old[i], new[i]))
  IN [updated_count |-> SumSeq([i \in I |-> B2N(ja(i) + ko(i) + al(i) > 0)]),
      nameJa_updated |-> SumSeq([i \in I |-> ja(i)]),
      nameKo_added |-> SumSeq([i \in I |-> ko(i)]),
      ja_alias_added |-> SumSeq([i \in I |-> al(i)])]

AddedPairs(old, new) ==
  UNION {{<<i, n>> : n \in NewAliases(old[i], new[i])} : i \in 1..Len(old)}

Aborted(op) ==
  /\ lastOp' = op
  /\ status' = "aborted"
  /\ summary' = <<>>
  /\ added' = {}
  /\ runs' = runs + 1
  /\ UNCHANGED <<members, official_talents, schedule_names>>

SyncOfficialNames ==
  /\ runs < MaxRuns
  /\ \E order \in Orders(schedule_ja_names(schedule_names)) :
       IF \E i \in 1..Len(members) : "name" \notin DOMAIN members[i]
       THEN Aborted("sync")
       ELSE LET new == [i \in 1..Len(members) |->
                          SyncMember(members[i], official_map(official_talents), order)]
            IN /\ members' = new
               /\ lastOp' = "sync"
               /\ status' = "done"
               /\ summary' = SyncSummary(members, new)
               /\ added' = AddedPairs(members, new)
               /\ runs' = runs + 1
               /\ UNCHANGED <<official_talents, schedule_names>>
  /\ UNCHANGED fileVars

(***************************************************************************)
(* update_members.py                                                       *)
(***************************************************************************)
\* the keys of official_ja_map, in the order of the file
official_ja_map(names) ==
  Dedup(SelectSeq(names, LAMBDA ja_name : ja_name \notin DENYLIST))

\* nameKo, when missing, from the first Korean alias or the romanization table
UpdateNameKo(member) ==
  IF NameKoMissing(member)
  THEN IF HasAliases(member, "ko")
       THEN SetKey(member, "nameKo", member.aliases.ko[1])
       ELSE SetKey(member, "nameKo", romanize_to_korean(member.name))
  ELSE member

\* whether a matching official name is appended
UpdateAccepts(ja_name, member_ja, ja_aliases) == ~InList(ja_name, ja_aliases)

RECURSIVE UpdateAliasLoop(_, _, _)
UpdateAliasLoop(order, member_ja, ja_aliases) ==
  IF order = <<>> THEN ja_aliases
  ELSE LET ja_name == Head(order)
       IN UpdateAliasLoop(Tail(order), member_ja,
            IF Matches(ja_name, member_ja, ja_aliases)
                 /\ UpdateAccepts(ja_name, member_ja, ja_aliases)
            THEN Append(ja_aliases, ja_name)
            ELSE ja_aliases)

\* only a member that already has Japanese aliases is looked at
UpdateAliases(member, order) ==
  IF HasAliases(member, "ja")
  THEN SetKey(member, "aliases",
              SetKey(member.aliases, "ja",
                     UpdateAliasLoop(order, Get(member, "nameJa", <<>>), member.aliases.ja)))
  ELSE member

\* member['name'] is read only by the romanization and by the 'Added' report
UpdateRaises(member, order) ==
  /\ "name" \notin DOMAIN member
  /\ \/ NameKoMissing(member) /\ ~HasAliases(member, "ko")
     \/ NewAliases(member, UpdateAliases(member, order)) # {}

UpdateMember(member, order) == UpdateAliases(UpdateNameKo(member), order)

UpdateSummary(old, new) ==
  LET I == 1..Len(old)
      ko(i) == B2N(NameKoMissing(old[i]))
      al(i) == Cardinality(NewAliases(old[i], new[i]))
  IN [updated_count |-> SumSeq([i \in I |-> B2N(ko(i) + al(i) > 0)]),
      nameKo_added |-> SumSeq([i \in I |-> ko(i)]),
      ja_alias_added |-> SumSeq([i \in I |-> al(i)])]

UpdateMembers ==
  /\ runs < MaxRuns
  /\ LET order == official_ja_map(schedule_names)
     IN IF \E i \in 1..Len(members) : UpdateRaises(members[i], order)
        THEN Aborted("update")
        ELSE LET new == [i \in 1..Len(members) |-> UpdateMember(members[i], order)]
             IN /\ members' = new
                /\ lastOp' = "update"
                /\ status' = "done"
                /\ summary' = UpdateSummary(members, new)
                /\ added' = AddedPairs(members, new)
                /\ runs' = runs + 1
                /\ UNCHANGED <<official_talents, schedule_names>>
  /\ UNCHANGED fileVars

(***************************************************************************)
(* fix_korean_names.py                                                     *)
(***************************************************************************)
FixMember(member) ==
  IF member.name \in DOMAIN OFFICIAL_KOREAN_NAMES
  THEN IF Get(member, "nameKo", "") # OFFICIAL_KOREAN_NAMES[member.name]
       THEN SetKey(member, "nameKo", OFFICIAL_KOREAN_NAMES[member.name])
       ELSE member
  ELSE IF NameKoMissing(member)
       THEN SetKey(member, "nameKo", member.name)
       ELSE member

FixSummary(old) ==
  LET I == 1..Len(old)
  IN [updated |-> SumSeq([i \in I |->
                    B2N(old[i].name \in DOMAIN OFFICIAL_KOREAN_NAMES
                          /\ FixMember(old[i]) # old[i])]),
      missing |-> SumSeq([i \in I |->
                    B2N(old[i].name \notin DOMAIN OFFICIAL_KOREAN_NAMES)])]

FixKoreanNames ==
  /\ runs < MaxRuns
  /\ IF \E i \in 1..Len(members) : "name" \notin DOMAIN members[i]
     THEN Aborted("fix_korean")
     ELSE /\ members' = [i \in 1..Len(members) |-> FixMember(members[i])]
          /\ lastOp' = "fix_korean"
          /\ status' = "done"
          /\ summary' = FixSummary(members)
          /\ added' = {}
          /\ runs' = runs + 1
          /\ UNCHANGED <<official_talents, schedule_names>>
  /\ UNCHANGED fileVars

(***************************************************************************)
(* Between two runs one of the input files is scraped anew.                *)
(***************************************************************************)
NewInputs ==
  /\ runs < MaxRuns
  /\ lastOp # "none"
  /\ \/ /\ official_talents' \in OfficialFiles \ {official_talents}
        /\ UNCHANGED schedule_names
     \/ /\ schedule_names' \in ScheduleFiles \ {schedule_names}
        /\ UNCHANGED official_talents
  /\ lastOp' = "none"
  /\ status' = "idle"
  /\ summary' = <<>>
  /\ added' = {}
  /\ runs' = runs + 1
  /\ UNCHANGED members
  /\ UNCHANGED fileVars

(***************************************************************************)
(* scripts/fix_japanese_labels.py                                          *)
(***************************************************************************)
RECURSIVE Replace(_, _, _)
\* s.replace(old, new): every occurrence of old, leftmost first, none overlapping
Replace(s, old, new) ==
  IF Len(s) < Len(old) THEN s
  ELSE IF SubSeq(s, 1, Len(old)) = old
       THEN new \o Replace(SubSeq(s, Len(old) + 1, Len(s)), old, new)
       ELSE <<Head(s)>> \o Replace(Tail(s), old, new)

replacements ==
  <<<<<<"u914D", "u4FE1", "u30BF", "u30B0", "uFF1A">>, <<"uBC29", "uC1A1", " ", "uD0DC", "uADF8", ":", " ">>>>,
     <<<<"u914D", "u4FE1", "u30BF", "u30B0", ":">>, <<"uBC29", "uC1A1", " ", "uD0DC", "uADF8", ":", " ">>>>,
     <<<<"u914D", "u4FE1", "u30BF", "u30B0">>, <<"uBC29", "uC1A1", " ", "uD0DC", "uADF8", ":", " ">>>>,
     <<<<"u30D5", "u30A1", "u30F3", "u30A2", "u30FC", "u30C8", "u30BF", "u30B0", "uFF1A">>, <<"uD32C", "uC544", "uD2B8", " ", "uD0DC", "uADF8", ":", " ">>>>,
     <<<<"u30D5", "u30A1", "u30F3", "u30A2", "u30FC", "u30C8", "u30BF", "u30B0", ":">>, <<"uD32C", "uC544", "uD2B8", " ", "uD0DC", "uADF8", ":", " ">>>>,
     <<<<"u30D5", "u30A1", "u30F3", "u30A2", "u30FC", "u30C8", "uFF1A">>, <<"uD32C", "uC544", "uD2B8", " ", "uD0DC", "uADF8", ":", " ">>>>,
     <<<<"u30D5", "u30A1", "u30F3", "u30A2", "u30FC", "u30C8", ":">>, <<"uD32C", "uC544", "uD2B8", " ", "uD0DC", "uADF8", ":", " ">>>>,
     <<<<"u30D5", "u30A1", "u30F3", "u30A2", "u30FC", "u30C8">>, <<"uD32C", "uC544", "uD2B8", " ", "uD0DC", "uADF8", ":", " ">>>>,
     <<<<"u30A2", "u30FC", "u30C8", "u30BF", "u30B0", "uFF1A">>, <<"uD32C", "uC544", "uD2B8", " ", "uD0DC", "uADF8", ":", " ">>>>,
     <<<<"u30A2", "u30FC", "u30C8", "u30BF", "u30B0", " ", ":">>, <<"uD32C", "uC544", "uD2B8", " ", "uD0DC", "uADF8", ":", " ">>>>,
     <<<<"u30A2", "u30FC", "u30C8", "u30BF", "u30B0">>, <<"uD32C", "uC544", "uD2B8", " ", "uD0DC", "uADF8", ":", " ">>>>,
     <<<<"u5207", "u308A", "u629C", "u304D", "u52D5", "u753B", "uFF1A">>, <<"uD074", "uB9BD", ":", " ">>>>,
     <<<<"u5207", "u308A", "u629C", "u304D", "u52D5", "u753B", ":">>, <<"uD074", "uB9BD", ":", " ">>>>,
     <<<<"u5207", "u308A", "u629C", "u304D", "uFF1A">>, <<"uD074", "uB9BD", ":", " ">>>>,
     <<<<"u5207", "u308A", "u629C", "u304D", ":">>, <<"uD074", "uB9BD", ":", " ">>>>,
     <<<<"u30DF", "u30FC", "u30E0", "u6295", "u7A3F", "uFF1A">>, <<"uBC08", ":", " ">>>>,
     <<<<"u30DF", "u30FC", "u30E0", "u6295", "u7A3F", ":">>, <<"uBC08", ":", " ">>>>,
     <<<<"u30DF", "u30FC", "u30E0", "uFF1A">>, <<"uBC08", ":", " ">>>>,
     <<<<"u30DF", "u30FC", "u30E0", ":">>, <<"uBC08", ":", " ">>>>,
     <<<<"u697D", "u66F2", "u611F", "u60F3", "uFF1A">>, <<"uC545", "uACE1", " ", "uAC10", "uC0C1", ":", " ">>>>,
     <<<<"u697D", "u66F2", "u611F", "u60F3", ":">>, <<"uC545", "uACE1", " ", "uAC10", "uC0C1", ":", " ">>>>,
     <<<<"u6B4C", "u306E", "u611F", "u60F3", "uFF1A">>, <<"uC545", "uACE1", " ", "uAC10", "uC0C1", ":", " ">>>>,
     <<<<"u6B4C", "u306E", "u611F", "u60F3", ":">>, <<"uC545", "uACE1", " ", "uAC10", "uC0C1", ":", " ">>>>,
     <<<<"u30DC", "u30A4", "u30B9", "u611F", "u60F3", "uFF1A">>, <<"uBCF4", "uC774", "uC2A4", " ", "uAC10", "uC0C1", ":", " ">>>>,
     <<<<"u30DC", "u30A4", "u30B9", "u611F", "u60F3", ":">>, <<"uBCF4", "uC774", "uC2A4", " ", "uAC10", "uC0C1", ":", " ">>>>,
     <<<<"u30B7", "u30E7", "u30FC", "u30C8", "uFF1A">>, <<"uC1FC", "uD2B8", ":", " ">>>>,
     <<<<"u30B7", "u30E7", "u30FC", "u30C8", ":">>, <<"uC1FC", "uD2B8", ":", " ">>>>,
     <<<<"M", "M", "D", "u4F5C", "u54C1", "uFF1A">>, <<"M", "M", "D", " ", "uC791", "uD488", ":", " ">>>>,
     <<<<"M", "M", "D", "u4F5C", "u54C1", ":">>, <<"M", "M", "D", " ", "uC791", "uD488", ":", " ">>>>,
     <<<<"u30DE", "u30A4", "u30AF", "u30E9", "u6295", "u7A3F", "uFF1A">>, <<"uB9C8", "uC778", "uD06C", "uB798", "uD504", "uD2B8", ":", " ">>>>,
     <<<<"u30DE", "u30A4", "u30AF", "u30E9", "u6295", "u7A3F", ":">>, <<"uB9C8", "uC778", "uD06C", "uB798", "uD504", "uD2B8", ":", " ">>>>,
     <<<<"u30DB", "u30ED", "u30EA", "u30FC", "uFF06", "u8056", "u5730", "u5DE1", "u793C", "uFF1A">>, <<"uD640", "uB85C", "uB9AC", " ", "&", " ", "uC131", "uC9C0", "uC21C", "uB840", ":", " ">>>>,
     <<<<"u30DB", "u30ED", "u30EA", "u30FC", "uFF06", "u8056", "u5730", "u5DE1", "u793C", ":">>, <<"uD640", "uB85C", "uB9AC", " ", "&", " ", "uC131", "uC9C0", "uC21C", "uB840", ":", " ">>>>,
     <<<<"u30D5", "u30A1", "u30F3", "u30CD", "u30FC", "u30E0", "uFF1A">>, <<"uD32C", " ", "uC774", "uB984", ":", " ">>>>,
     <<<<"u30D5", "u30A1", "u30F3", "u30CD", "u30FC", "u30E0", ":">>, <<"uD32C", " ", "uC774", "uB984", ":", " ">>>>,
     <<<<"uC815", "uAE30", "uBC29", "uC1A1", "uFF1A">>, <<"uC815", "uAE30", "uBC29", "uC1A1", ":", " ">>>>,
     <<<<"uBC08", "uFF1A">>, <<"uBC08", ":", " ">>>>>>

RECURSIVE ReplaceAll(_, _, _)
\* the loop over replacements.items(): entry k, then the entries after it
ReplaceAll(s, table, k) ==
  IF k > Len(table) THEN s
  ELSE ReplaceAll(Replace(s, table[k][1], table[k][2]), table, k + 1)

\* what \s matches among the characters of the model: space, ideographic space
Whitespace == {" ", "u3000"}

RECURSIVE SkipSpace(_, _)
\* the first position from i on that holds no whitespace
SkipSpace(s, i) ==
  IF i <= Len(s) /\ s[i] \in Whitespace THEN SkipSpace(s, i + 1) ELSE i

RECURSIVE CollapseEveryColon(_)
\* CollapseColons with the pattern cut to r':\s*': a single colon is rewritten too
CollapseEveryColon(s) ==
  IF s = <<>> THEN <<>>
  ELSE IF Head(s) = ":"
       THEN <<":", " ">> \o CollapseEveryColon(SubSeq(s, SkipSpace(s, 2), Len(s)))
       ELSE <<Head(s)>> \o CollapseEveryColon(Tail(s))

RECURSIVE CollapseColons(_)
\* re.sub(r':\s*:\s*', ': ', s): matches are taken left to right and do not overlap
CollapseColons(s) ==
  IF s = <<>> THEN <<>>
  ELSE LET j == SkipSpace(s, 2)
       IN IF Head(s) = ":" /\ j <= Len(s) /\ s[j] = ":"
          THEN <<":", " ">> \o CollapseColons(SubSeq(s, SkipSpace(s, j + 1), Len(s)))
          ELSE <<Head(s)>> \o CollapseColons(Tail(s))

fix_hashtag_labels(value) == CollapseColons(ReplaceAll(value, replacements, 1))

\* the labels whose values are rewritten
HashtagLabels ==
  {"uD574.uC2DC.uD0DC.uADF8", "uBC29.uC1A1. uD574.uC2DC.uD0DC.uADF8",
   "uBC29.uC1A1. uD0DC.uADF8", "uD32C.uC544.uD2B8. uD0DC.uADF8",
   "uD32C.uC544.uD2B8", "uC624.uC2DC.uB9C8.uD06C"}

\* an entry of the 'data' list is a JSON object, or ("json" present) something else
IsDict(item) == "json" \notin DOMAIN item

\* the loop body of process_json_file over one entry
ProcessItem(item) ==
  IF ~IsDict(item) THEN item
  ELSE LET value == Get(item, "value", <<>>)
           new_value == fix_hashtag_labels(value)
       IN IF Get(item, "label", "") \in HashtagLabels /\ new_value # value
          THEN SetKey(item, "value", new_value)
          ELSE item

process_json_file(data) == [i \in 1..Len(data) |-> ProcessItem(data[i])]

Ran(op, how) ==
  /\ lastOp' = op
  /\ status' = how
  /\ runs' = runs + 1
  /\ UNCHANGED memberVars

FixJapaneseLabels ==
  /\ runs < MaxRuns
  /\ before' = profile
  /\ LET result == process_json_file(profile)
     IN /\ profile' = result
        /\ summary' = [modified |-> result # profile]
  /\ Ran("fix_japanese_labels", "done")

(***************************************************************************)
(* fix_japanese_hashtag_labels.py                                          *)
(***************************************************************************)
LABEL_REPLACEMENTS ==
  <<<<<<"u914D", "u4FE1", "u30BF", "u30B0">>, <<"uBC29", "uC1A1", " ", "uD0DC", "uADF8">>>>,
     <<<<"u30D5", "u30A1", "u30F3", "u30A2", "u30FC", "u30C8">>, <<"uD32C", "uC544", "uD2B8">>>>,
     <<<<"u6B4C", "u306E", "u611F", "u60F3">>, <<"uB178", "uB798", " ", "uAC10", "uC0C1">>>>,
     <<<<"u30DF", "u30FC", "u30E0", "u6295", "u7A3F">>, <<"uBC08", " ", "uD22C", "uACE0">>>>,
     <<<<"u30DF", "u30FC", "u30E0">>, <<"uBC08">>>>,
     <<<<"u30DE", "u30A4", "u30AF", "u30E9", "u6295", "u7A3F">>, <<"uB9C8", "uC778", "uD06C", "uB798", "uD504", "uD2B8", " ", "uD22C", "uACE0">>>>,
     <<<<"u5207", "u308A", "u629C", "u304D">>, <<"uD074", "uB9BD">>>>,
     <<<<"u5207", "u308A", "u629C", "u304D", "u52D5", "u753B">>, <<"uD074", "uB9BD", " ", "uC601", "uC0C1">>>>>>

RECURSIVE ReplaceLabels(_, _, _)
\* the loop over LABEL_REPLACEMENTS.items(): each label with a full-width colon,
\* then with a half-width colon
ReplaceLabels(s, table, k) ==
  IF k > Len(table) THEN s
  ELSE LET jp == table[k][1]
           ko == table[k][2] \o <<":", " ">>
       IN ReplaceLabels(Replace(Replace(s, Append(jp, "uFF1A"), ko), Append(jp, ":"), ko),
                        table, k + 1)

fix_japanese_hashtag_labels(value) == ReplaceLabels(value, LABEL_REPLACEMENTS, 1)

\* 'value' in item, for an entry that is a number, raises TypeError
FileRaises(data) == \E i \in 1..Len(data) : ~IsDict(data[i]) /\ data[i].json = "number"

\* the loop body of process_file over one entry
FileItem(item) ==
  IF IsDict(item) /\ "value" \in DOMAIN item
  THEN SetKey(item, "value", fix_japanese_hashtag_labels(item.value))
  ELSE item

process_file(data) == [i \in 1..Len(data) |-> FileItem(data[i])]

FixJapaneseHashtagLabels ==
  /\ runs < MaxRuns
  /\ before' = profile
  /\ IF FileRaises(profile)
     THEN /\ UNCHANGED profile
          /\ summary' = <<>>
          /\ Ran("fix_japanese_hashtag_labels", "aborted")
     ELSE /\ LET result == process_file(profile)
             IN /\ profile' = result
                /\ summary' = [modified |-> result # profile]
          /\ Ran("fix_japanese_hashtag_labels", "done")

(***************************************************************************)
(* The profile files the model starts from.                                *)
(***************************************************************************)
FanArt == <<"u30D5", "u30A1", "u30F3", "u30A2", "u30FC", "u30C8">>
Tag == <<"u30BF", "u30B0">>
Haishin == <<"u914D", "u4FE1">>
Picture == <<"u7D75">>

\* what a value is put together from: pieces of labels, separators, other text
Pieces == {FanArt, Tag, Haishin, Picture, <<":">>, <<"uFF1A">>, <<" ">>}

RECURSIVE Concat(_)
Concat(ss) == IF ss = <<>> THEN <<>> ELSE Head(ss) \o Concat(Tail(ss))

Values == {Concat(ps) : ps \in UNION {[1..k -> Pieces] : k \in 0..MaxPieces}}

HashtagLabel == "uD574.uC2DC.uD0DC.uADF8"
OtherLabel == "SNS"

Profiles ==
  {<<[label |-> HashtagLabel, value |-> v]>> : v \in Values}
    \cup {<<other, [label |-> HashtagLabel, value |-> FanArt \o <<":">> \o Picture]>> :
            other \in {[json |-> "number"], [json |-> "string"],
                       [label |-> OtherLabel, value |-> Haishin \o Tag],
                       [label |-> HashtagLabel]}}

(***************************************************************************)
(* Specifications.                                                         *)
(***************************************************************************)
InitFiles ==
  /\ profile = <<>>
  /\ before = <<>>

InitMembers ==
  /\ members = <<>>
  /\ official_talents = <<>>
  /\ schedule_names = <<>>

InitRun ==
  /\ lastOp = "none"
  /\ status = "idle"
  /\ summary = <<>>
  /\ added = {}
  /\ runs = 0

\* Alias reconciliation: the scripts that touch nameJa and aliases.ja, run in any
\* order on any of the input files.
InitAliases ==
  /\ members \in JaRegistries
  /\ official_talents \in OfficialFiles
  /\ schedule_names \in ScheduleFiles
  /\ InitRun
  /\ InitFiles

NextAliases == SyncOfficialNames \/ UpdateMembers \/ NewInputs

SpecAliases == InitAliases /\ [][NextAliases]_vars

\* nameKo resolution: the three scripts, run in any order on records that differ in
\* name, nameKo and Korean aliases.
InitNameKo ==
  /\ members \in KoRegistries
  /\ official_talents \in OfficialFiles
  /\ schedule_names \in {<<ReGLOSS>>, <<JaAB, ReGLOSS>>}
  /\ InitRun
  /\ InitFiles

NextNameKo == SyncOfficialNames \/ UpdateMembers \/ FixKoreanNames

SpecNameKo == InitNameKo /\ [][NextNameKo]_vars

\* Label normalization: the two label scripts, run in any order on one profile.
InitLabels ==
  /\ profile \in Profiles
  /\ before = profile
  /\ InitRun
  /\ InitMembers

NextLabels == FixJapaneseLabels \/ FixJapaneseHashtagLabels

SpecLabels == InitLabels /\ [][NextLabels]_vars

(***************************************************************************)
(* Properties.                                                             *)
(***************************************************************************)
JaAliasesOf(member) ==
  IF "aliases" \in DOMAIN member /\ "ja" \in DOMAIN member.aliases
  THEN member.aliases.ja ELSE <<>>

\* a run of sync_official_names.py or update_members.py that ran to its end
AliasRun == lastOp' \in {"sync", "update"} /\ status' = "done" /\ runs' = runs + 1

AllZero(counters) == \A k \in DOMAIN counters : counters[k] = 0

\* one string occurs in the other
Contains(x, y) == PyIn(x, y) \/ PyIn(y, x)

\* C1: a second run of the same reconciliation script on the registry the first run
\* left, with the same input files, changes no field of any member and reports every
\* counter as zero, whatever order the schedule names are iterated in.
C1_SecondRunChangesNothing ==
  [][(lastOp \in {"sync", "update"} /\ status = "done" /\ lastOp' = lastOp /\ AliasRun)
       => (members' = members /\ AllZero(summary'))]_vars

\* the member has a nameJa that is not the empty string
HasNameJa(member) == "nameJa" \in DOMAIN member /\ member.nameJa # <<>>

\* C2 as stated: in one run of alias discovery a schedule name is appended to the ja
\* aliases of at most one member (stated here for the members that have a nameJa:
\* among them no two receive the same name in one run).
C2_AtMostOneMemberReceives ==
  \A p \in added : \A q \in added :
    (p[2] = q[2] /\ HasNameJa(members[p[1]]) /\ HasNameJa(members[q[1]])) => p[1] = q[1]

\* C2 as amended: in one run of alias discovery a schedule name that is not on the
\* denylist ends up among the ja aliases of every member, not only the first, whose
\* nameJa or whose ja aliases before the run contain it or are contained in it
\* (sync_official_names.py leaves out a name equal to nameJa and takes a missing
\* nameJa as the empty string, update_members.py looks only at members that already
\* have ja aliases); and a name is appended to a member only if it is such a schedule
\* name and matches that member's nameJa or another of its ja aliases.
C2_EveryMatchingMemberReceives ==
  [][AliasRun =>
       \A i \in 1..Len(members) :
         LET member_ja == Get(members'[i], "nameJa", <<>>)
             was == JaAliasesOf(members[i])
             now == JaAliasesOf(members'[i])
             looked == lastOp' = "sync" \/ was # <<>>
         IN /\ \A n \in Range(schedule_names) \ DENYLIST :
                 (looked /\ (Contains(n, member_ja)
                               \/ \E k \in 1..Len(was) : Contains(n, was[k])))
                   => (InList(n, now) \/ (lastOp' = "sync" /\ n = member_ja))
            /\ \A n \in Range(now) \ Range(was) :
                 /\ <<i, n>> \in added'
                 /\ n \in Range(schedule_names) \ DENYLIST
                 /\ looked
                 /\ \/ Contains(n, member_ja)
                    \/ \E k \in 1..Len(now) : now[k] # n /\ Contains(n, now[k])]_vars

\* C2 witness: one run appended the same schedule name to both members, each of
\* which has a nameJa the name is contained in.
C2_Witness ==
  /\ status = "done"
  /\ \E n \in ScheduleNamePool :
       /\ <<1, n>> \in added /\ <<2, n>> \in added
       /\ HasNameJa(members[1]) /\ PyIn(n, members[1].nameJa)
       /\ HasNameJa(members[2]) /\ PyIn(n, members[2].nameJa)

\* C3: a member whose nameJa is empty or missing and who has no ja aliases matches no
\* schedule name: a run of alias discovery appends nothing to it.
C3_EmptyNameJaReceivesNothing ==
  [][AliasRun =>
       \A i \in 1..Len(members) :
         (Get(members'[i], "nameJa", <<>>) = <<>> /\ JaAliasesOf(members[i]) = <<>>)
           => JaAliasesOf(members'[i]) = <<>>]_vars

\* C4: no member's ja alias list holds a string equal to that member's nameJa.
C4_NoAliasEqualsNameJa ==
  \A i \in 1..Len(members) :
    "nameJa" \in DOMAIN members[i] => ~InList(members[i].nameJa, JaAliasesOf(members[i]))

\* the member has a nameKo that is not the empty string
HasNameKo(member) == "nameKo" \in DOMAIN member /\ member.nameKo # ""

\* C7: after a run of a script that resolves nameKo, every member with a non-empty
\* name has a non-empty nameKo.
C7_NameKoNeverEmpty ==
  (lastOp \in {"sync", "update", "fix_korean"} /\ status = "done")
    => \A i \in 1..Len(members) :
         ("name" \in DOMAIN members[i] /\ members[i].name # "") => HasNameKo(members[i])

\* C8: a non-empty nameKo is replaced only by fix_korean_names.py, only for a member
\* whose name is in OFFICIAL_KOREAN_NAMES, and only with the entry of that table; no
\* script changes or removes the non-empty nameKo of any other member.
C8_OnlyOverrideReplaces ==
  [][\A i \in 1..Len(members) :
       HasNameKo(members[i]) =>
         /\ Len(members') = Len(members)
         /\ "nameKo" \in DOMAIN members'[i]
         /\ members'[i].nameKo # members[i].nameKo =>
              /\ lastOp' = "fix_korean"
              /\ "name" \in DOMAIN members[i]
              /\ members[i].name \in DOMAIN OFFICIAL_KOREAN_NAMES
              /\ members'[i].nameKo = OFFICIAL_KOREAN_NAMES[members[i].name]]_vars

\* C8 witness: after at least two runs, the last of them fix_korean_names.py, a
\* member that is not in the table and has a Korean alias still has the nameKo it
\* started with, which is neither its name nor that alias.
C8_Witness ==
  /\ status = "done"
  /\ \E i \in 1..Len(members) :
       /\ "name" \in DOMAIN members[i]
       /\ members[i].name \notin DOMAIN OFFICIAL_KOREAN_NAMES
       /\ HasNameKo(members[i])
       /\ members[i].nameKo = KoOld
       /\ HasAliases(members[i], "ko")
       /\ members[i].aliases.ko[1] = KoAlias
  /\ lastOp = "fix_korean"
  /\ summary.missing > 0
  /\ runs > 1

\* C9: a run over a registry in which one record has no name skips that record, ends
\* normally and has resolved the nameKo of every other record.
C9_MalformedRecordSkipped ==
  (/\ lastOp \in {"sync", "update", "fix_korean"}
   /\ Len(members) > 1
   /\ \E i \in 1..Len(members) : "name" \notin DOMAIN members[i])
    => /\ status = "done"
       /\ \A i \in 1..Len(members) :
            "name" \in DOMAIN members[i] => "nameKo" \in DOMAIN members[i]

\* an entry whose value process_json_file hands to fix_hashtag_labels
Rewritten(item) ==
  IsDict(item) /\ "value" \in DOMAIN item /\ Get(item, "label", "") \in HashtagLabels

\* C5: a value a label script has normalized is a fixed point of that script's
\* normalization.
C5_NormalizeIdempotent ==
  /\ (lastOp = "fix_japanese_labels" /\ status = "done") =>
       \A i \in 1..Len(profile) :
         Rewritten(profile[i]) =>
           fix_hashtag_labels(profile[i].value) = profile[i].value
  /\ (lastOp = "fix_japanese_hashtag_labels" /\ status = "done") =>
       \A i \in 1..Len(profile) :
         (IsDict(profile[i]) /\ "value" \in DOMAIN profile[i]) =>
           fix_japanese_hashtag_labels(profile[i].value) = profile[i].value

\* the value holds none of the source tokens of the replacement table
NoToken(value) == \A k \in 1..Len(replacements) : ~PyIn(replacements[k][1], value)

\* the value holds no half-width colon that is followed, after any whitespace, by
\* another half-width colon
NoColonPair(value) ==
  \A i \in 1..Len(value) :
    value[i] = ":" =>
      LET j == SkipSpace(value, i + 1) IN ~(j <= Len(value) /\ value[j] = ":")

\* C6 as stated: fix_hashtag_labels returns a value that holds none of the source
\* tokens unchanged.
C6_NoTokenUnchanged ==
  (lastOp = "fix_japanese_labels" /\ status = "done") =>
    \A i \in 1..Len(profile) :
      (Rewritten(before[i]) /\ NoToken(before[i].value)) => profile[i] = before[i]

\* C6 as amended: fix_hashtag_labels returns unchanged a value that holds none of the
\* source tokens and no two half-width colons with at most whitespace between them.
C6_NoTokenNoColonPairUnchanged ==
  (lastOp = "fix_japanese_labels" /\ status = "done") =>
    \A i \in 1..Len(profile) :
      (Rewritten(before[i]) /\ NoToken(before[i].value) /\ NoColonPair(before[i].value))
        => profile[i] = before[i]

\* C6 witness: fix_hashtag_labels has been applied to a value without a source token
\* that holds colons of both widths, a space and other text, and left it as it was.
C6_Witness ==
  /\ lastOp = "fix_japanese_labels"
  /\ status = "done"
  /\ \E i \in 1..Len(profile) :
       /\ Rewritten(before[i])
       /\ NoToken(before[i].value)
       /\ NoColonPair(before[i].value)
       /\ {":", "uFF1A"} \subseteq Range(before[i].value)
       /\ Len(before[i].value) >= 3
       /\ profile[i] = before[i]

\* the label whose tokens hold shorter tokens of the table (the fan-art label and the
\* art-tag label), with what the table puts in its place
CompoundLabels ==
  {[jp |-> FanArt \o Tag,
    ko |-> <<"uD32C", "uC544", "uD2B8", " ", "uD0DC", "uADF8", ":", " ">>]}

\* C10: a value that starts with a compound label, followed by a full-width colon, a
\* half-width colon or no colon, is rewritten to the compound's replacement followed
\* by the rest of the value; nothing of the label is left.
C10_CompoundLabelReplaced ==
  (lastOp = "fix_japanese_labels" /\ status = "done") =>
    \A i \in 1..Len(profile) :
      \A c \in CompoundLabels, colon \in {<<"uFF1A">>, <<":">>, <<>>}, rest \in {<<>>, Picture} :
        (Rewritten(before[i]) /\ before[i].value = c.jp \o colon \o rest)
          => profile[i].value = c.ko \o rest

\* the separator characters of a label: the half-width and the full-width colon
Separators == {":", "uFF1A"}

\* the value holds two separator characters with at most whitespace between them
SeparatorPair(value) ==
  \E i \in 1..Len(value) :
    /\ value[i] \in Separators
    /\ LET j == SkipSpace(value, i + 1) IN j <= Len(value) /\ value[j] \in Separators

\* C11: a value fix_hashtag_labels has returned holds no two separator characters
\* (full-width or half-width colon) that are adjacent or have only whitespace between
\* them.
C11_NoSeparatorPairLeft ==
  (lastOp = "fix_japanese_labels" /\ status = "done") =>
    \A i \in 1..Len(profile) :
      Rewritten(before[i]) => ~SeparatorPair(profile[i].value)

====
